---- MODULE Spec2Model ----
(***************************************************************************)
(* Model of server.py: a FastAPI service that loads q-fastapi.csv into     *)
(* ALL_STUDENTS_DATA when the module is imported and serves GET /api,      *)
(* optionally filtered by repeated ?class= query parameters.               *)
(*                                                                         *)
(* Python values are modelled as follows.  A str is a TLA+ string, an int  *)
(* an integer, a list a sequence, a dict or model instance a record.       *)
(* float('nan') (what pandas stores for a missing cell) is the string NaN, *)
(* which is no CSV cell and no query value.  Optional[List[str]] is a      *)
(* record [is_none, values].                                               *)
(***************************************************************************)
EXTENDS Integers, Sequences, FiniteSets, TLC

\* Bounds of the model: rows in the CSV file, parameters in a query string.
MaxRows == 2
MaxParams == 2

\* The request handlers that may be in flight at the same time.
Requests == {"r1", "r2"}

\* Cells of the studentId column and of the class column of the CSV file.
IdCells == {"1", "2"}
ClassCells == {"1A", "1B", "NA"}

\* Names and values of the parameters of a query string.
ParamNames == {"class", "class_name"}
ParamValues == {"1A", "1B", ""}

SeqsUpTo(S, n) == UNION {[1..k -> S] : k \in 0..n}

Range(s) == {s[i] : i \in 1..Len(s)}

\* ---------------------------------------------------------------------
\* The data source: the file at FILE_PATH.
\* ---------------------------------------------------------------------

CsvRows == [studentId : IdCells, class : ClassCells]

\* "missing": no file at FILE_PATH.  "unreadable": a file is there but
\* open() or the parser fails on it (permission denied, a directory, a
\* file of zero bytes).  "readable": a header line and the rows.
Sources ==
    {[status |-> "missing", rows |-> <<>>], [status |-> "unreadable", rows |-> <<>>]}
        \cup {[status |-> "readable", rows |-> rows] : rows \in SeqsUpTo(CsvRows, MaxRows)}

\* float('nan')
NaN == "float:nan"

\* pandas' default na_values that ClassCells contains: read_csv is called
\* without keep_default_na=False, so these cells are read as missing even
\* under dtype str.
NaValues == {"", "NA", "NaN", "nan", "null", "N/A", "n/a", "NULL", "<NA>", "#N/A"}

\* dtype={'studentId': int}: the decimal cell as an integer.
to_int(cell) == CASE cell = "1" -> 1 [] cell = "2" -> 2

\* dtype={'class': str}: the cell's text, or NaN for a cell in na_values.
to_str(cell) == IF cell \in NaValues THEN NaN ELSE cell

\* pd.read_csv(FILE_PATH, dtype=...) on a readable file: one frame row per
\* CSV row, in file order, columns studentId and class.
read_csv(rows) ==
    [i \in 1..Len(rows) |->
        [studentId |-> to_int(rows[i].studentId), class |-> to_str(rows[i].class)]]

\* df.rename(columns={'class': 'class_name'}) then df.to_dict('records').
to_dict_records(df) ==
    [i \in 1..Len(df) |-> [studentId |-> df[i].studentId, class_name |-> df[i].class]]

\* ---------------------------------------------------------------------
\* The pydantic models and the wire format.
\* ---------------------------------------------------------------------

\* model_config = ConfigDict(populate_by_name=True)
populate_by_name == TRUE

\* Field(alias="class"): field name -> key on the wire.
FieldAlias == [studentId |-> "studentId", class_name |-> "class"]

\* Student(studentId=..., class_name=...) validates: the keyword class_name
\* is the field's name, not its alias, so it populates the field only under
\* populate_by_name; studentId must be an int and class_name a str.
StudentValidates(s) ==
    /\ populate_by_name
    /\ s.studentId \in Int
    /\ s.class_name # NaN

\* The Student instance built from a record of the store.
Student(s) == [studentId |-> s.studentId, class_name |-> s.class_name]

\* FastAPI serialises the response_model by alias: each field under its
\* alias.
model_dump(m) ==
    [k \in {FieldAlias[f] : f \in DOMAIN m} |->
        m[CHOOSE f \in DOMAIN m : FieldAlias[f] = k]]

\* StudentsResponse(students=...), serialised, with status 200.
StudentsResponse(students) ==
    [status_code |-> 200,
     body |-> [students |-> [i \in 1..Len(students) |-> model_dump(students[i])]]]

\* An exception that escapes the handler: 500 Internal Server Error.
InternalServerError ==
    [status_code |-> 500, body |-> [error |-> "Internal Server Error"]]

\* ---------------------------------------------------------------------
\* The query string and the handler's pure steps.
\* ---------------------------------------------------------------------

Params == [name : ParamNames, value : ParamValues]
Queries == SeqsUpTo(Params, MaxParams)

None == [is_none |-> TRUE, values |-> <<>>]
Some(l) == [is_none |-> FALSE, values |-> l]

\* Variant: a scalar parameter (Optional[str]), which keeps the last value.
class_filter_last(query) ==
    LET named == SelectSeq(query, LAMBDA p : p.name = "class")
    IN  IF named = <<>> THEN None ELSE Some(<<named[Len(named)].value>>)

\* Query(None, alias="class"): the values of the parameters named class, in
\* the order of the query string; None when there is no such parameter.
class_filter_of(query) ==
    LET named == SelectSeq(query, LAMBDA p : p.name = "class")
    IN  IF named = <<>> THEN None
        ELSE Some([i \in 1..Len(named) |-> named[i].value])

\* Python truth value of an Optional[List[str]].
Truthy(cf) == ~cf.is_none /\ cf.values # <<>>

\* x in list: nan equals nothing, a str equals the same str.
PyIn(x, l) == x # NaN /\ \E i \in 1..Len(l) : l[i] = x

\* Variant: compares with the first filter value only (== class_filter[0]).
filtered_data_first_value(store, cf) ==
    SelectSeq(store, LAMBDA student : student.class_name = cf.values[1])

\* Variant: collects the matches filter value by filter value, in the order
\* of the request, each distinct value once.
filtered_data_by_value(store, cf) ==
    LET vals == cf.values
        group(i) ==
            IF \E k \in 1..(i - 1) : vals[k] = vals[i] THEN <<>>
            ELSE SelectSeq(store, LAMBDA student : student.class_name = vals[i])
        RECURSIVE upto(_)
        upto(i) == IF i = 0 THEN <<>> ELSE upto(i - 1) \o group(i)
    IN  upto(Len(vals))

\* [student for student in ALL_STUDENTS_DATA
\*      if student['class_name'] in class_filter]
filtered_data(store, cf) ==
    SelectSeq(store, LAMBDA student : PyIn(student.class_name, cf.values))

\* [Student(studentId=s['studentId'], class_name=s['class_name'])
\*      for s in students_list], then the response; a ValidationError
\* escapes the handler.
convert(students_list) ==
    IF \A i \in 1..Len(students_list) : StudentValidates(students_list[i])
    THEN StudentsResponse([i \in 1..Len(students_list) |-> Student(students_list[i])])
    ELSE InternalServerError

\* The whole handler run on its own against a store.
get_students_data(store, query) ==
    LET cf == class_filter_of(query)
    IN  IF store = <<>> THEN StudentsResponse(<<>>)
        ELSE IF Truthy(cf) THEN convert(filtered_data(store, cf))
        ELSE convert(store)

\* ---------------------------------------------------------------------
\* State.
\* ---------------------------------------------------------------------

VARIABLES
    source,             \* the file at FILE_PATH; never written by the program
    main_pc,            \* module import: "load", then "serving" or "crashed"
    ALL_STUDENTS_DATA,  \* the module global; <<>> while still unbound
    writes,             \* number of assignments to ALL_STUDENTS_DATA so far
    stdout,             \* the level of the line printed by the load
    requests            \* per handler: pc and the locals of get_students_data

vars == <<source, main_pc, ALL_STUDENTS_DATA, writes, stdout, requests>>

NoResponse == [status_code |-> 0, body |-> [students |-> <<>>]]

Idle ==
    [pc |-> "idle", query |-> <<>>, class_filter |-> None,
     students_list |-> <<>>, response |-> NoResponse]

Init ==
    /\ source \in Sources
    /\ main_pc = "load"
    /\ ALL_STUDENTS_DATA = <<>>
    /\ writes = 0
    /\ stdout = "none"
    /\ requests = [r \in Requests |-> Idle]

\* ---------------------------------------------------------------------
\* Startup.
\* ---------------------------------------------------------------------

\* Variant: no except clause, a missing file ends the import too.
Load_uncaught ==
    /\ main_pc = "load"
    /\ \/ /\ source.status = "readable"
          /\ ALL_STUDENTS_DATA' = to_dict_records(read_csv(source.rows))
          /\ writes' = writes + 1
          /\ stdout' = "INFO"
          /\ main_pc' = "serving"
       \/ /\ source.status # "readable"
          /\ main_pc' = "crashed"
          /\ UNCHANGED <<ALL_STUDENTS_DATA, writes, stdout>>
    /\ UNCHANGED <<source, requests>>

\* The try/except at import time.  Only FileNotFoundError is caught: any
\* other exception of read_csv ends the import, and uvicorn never starts.
Load ==
    /\ main_pc = "load"
    /\ \/ /\ source.status = "readable"
          /\ ALL_STUDENTS_DATA' = to_dict_records(read_csv(source.rows))
          /\ writes' = writes + 1
          /\ stdout' = "INFO"
          /\ main_pc' = "serving"
       \/ /\ source.status = "missing"
          /\ ALL_STUDENTS_DATA' = <<>>
          /\ writes' = writes + 1
          /\ stdout' = "CRITICAL"
          /\ main_pc' = "serving"
       \/ /\ source.status = "unreadable"
          /\ main_pc' = "crashed"
          /\ UNCHANGED <<ALL_STUDENTS_DATA, writes, stdout>>
    /\ UNCHANGED <<source, requests>>

\* ---------------------------------------------------------------------
\* GET /api, one step per read of the module global.
\* ---------------------------------------------------------------------

AllIdle == \A r \in Requests : requests[r].pc = "idle"

\* FastAPI routes the request and binds class_filter.
Receive(r, query) ==
    /\ main_pc = "serving"
    /\ requests[r].pc = "idle"
    /\ requests' = [requests EXCEPT ![r] =
            [Idle EXCEPT !.pc = "check", !.query = query,
                         !.class_filter = class_filter_of(query)]]
    /\ UNCHANGED <<source, main_pc, ALL_STUDENTS_DATA, writes, stdout>>

\* if not ALL_STUDENTS_DATA: return StudentsResponse(students=[])
\* students_list = ALL_STUDENTS_DATA
CheckStore(r) ==
    /\ requests[r].pc = "check"
    /\ IF ALL_STUDENTS_DATA = <<>>
       THEN requests' = [requests EXCEPT ![r].pc = "done",
                                         ![r].response = StudentsResponse(<<>>)]
       ELSE requests' = [requests EXCEPT ![r].pc = "filter",
                                         ![r].students_list = ALL_STUDENTS_DATA]
    /\ UNCHANGED <<source, main_pc, ALL_STUDENTS_DATA, writes, stdout>>

\* Variant: the filter narrows the module global in place
\* (ALL_STUDENTS_DATA[:] = filtered_data).
Filter_in_place(r) ==
    /\ requests[r].pc = "filter"
    /\ IF Truthy(requests[r].class_filter)
       THEN /\ requests' = [requests EXCEPT ![r].pc = "convert",
                    ![r].students_list =
                        filtered_data(ALL_STUDENTS_DATA, requests[r].class_filter)]
            /\ ALL_STUDENTS_DATA' =
                    filtered_data(ALL_STUDENTS_DATA, requests[r].class_filter)
            /\ writes' = writes + 1
       ELSE /\ requests' = [requests EXCEPT ![r].pc = "convert"]
            /\ UNCHANGED <<ALL_STUDENTS_DATA, writes>>
    /\ UNCHANGED <<source, main_pc, stdout>>

\* if class_filter: students_list = [... for student in ALL_STUDENTS_DATA ...]
Filter(r) ==
    /\ requests[r].pc = "filter"
    /\ IF Truthy(requests[r].class_filter)
       THEN requests' = [requests EXCEPT ![r].pc = "convert",
                ![r].students_list =
                    filtered_data(ALL_STUDENTS_DATA, requests[r].class_filter)]
       ELSE requests' = [requests EXCEPT ![r].pc = "convert"]
    /\ UNCHANGED <<source, main_pc, ALL_STUDENTS_DATA, writes, stdout>>

\* Variant: the conversion pops the records off students_list, which without
\* a filter is ALL_STUDENTS_DATA itself (students_list = ALL_STUDENTS_DATA).
Convert_consume(r) ==
    /\ requests[r].pc = "convert"
    /\ requests' = [requests EXCEPT ![r].pc = "done",
                                    ![r].response = convert(requests[r].students_list)]
    /\ IF Truthy(requests[r].class_filter)
       THEN UNCHANGED <<ALL_STUDENTS_DATA, writes>>
       ELSE ALL_STUDENTS_DATA' = <<>> /\ writes' = writes + 1
    /\ UNCHANGED <<source, main_pc, stdout>>

\* students = [Student(...) for s in students_list]
\* return StudentsResponse(students=students)
Convert(r) ==
    /\ requests[r].pc = "convert"
    /\ requests' = [requests EXCEPT ![r].pc = "done",
                                    ![r].response = convert(requests[r].students_list)]
    /\ UNCHANGED <<source, main_pc, ALL_STUDENTS_DATA, writes, stdout>>

\* The response is sent and the handler's frame is gone.
Respond(r) ==
    /\ requests[r].pc = "done"
    /\ requests' = [requests EXCEPT ![r] = Idle]
    /\ UNCHANGED <<source, main_pc, ALL_STUDENTS_DATA, writes, stdout>>

\* One request at a time, any query string.  With no other request in
\* flight the handlers are interchangeable, so the first one takes it.
ReceiveAlone ==
    \E query \in Queries : AllIdle /\ Receive(CHOOSE r \in Requests : TRUE, query)

\* The query strings of the concurrent specification.
ConcQueries ==
    {<<>>,
     <<[name |-> "class", value |-> "1A"]>>,
     <<[name |-> "class", value |-> "1B"], [name |-> "class", value |-> "1A"]>>,
     <<[name |-> "class", value |-> ""]>>,
     <<[name |-> "class_name", value |-> "1A"]>>}

\* Any number of requests in flight.
ReceiveAny == \E r \in Requests, query \in ConcQueries : Receive(r, query)

Step ==
    \E r \in Requests : CheckStore(r) \/ Filter(r) \/ Convert(r) \/ Respond(r)

Next == Load \/ ReceiveAlone \/ Step

Spec == Init /\ [][Next]_vars

ConcNext == Load \/ ReceiveAny \/ Step

ConcSpec == Init /\ [][ConcNext]_vars

\* ---------------------------------------------------------------------
\* Properties.
\* ---------------------------------------------------------------------

Done(r) == requests[r].pc = "done"

\* The filter sequence of a request as the client wrote it: the values given
\* under the parameter name class.
HasClassParam(query) == \E i \in 1..Len(query) : query[i].name = "class"
FilterSet(query) == {query[i].value : i \in {j \in 1..Len(query) : query[j].name = "class"}}

\* A record of the store as a StudentRecord on the wire.
Wire(s) == [studentId |-> s.studentId, class |-> s.class_name]
WireStore == [i \in 1..Len(ALL_STUDENTS_DATA) |-> Wire(ALL_STUDENTS_DATA[i])]

Count(seq, x) == Cardinality({i \in 1..Len(seq) : seq[i] = x})

\* The rows of the store whose class is one of the filter values.
Matching(F) == {j \in 1..Len(ALL_STUDENTS_DATA) : ALL_STUDENTS_DATA[j].class_name \in F}

Students(r) == requests[r].response.body.students

\* C1: with a filter, the response holds only records whose class is one of
\* the filter values, and each store record whose class is a filter value
\* occurs in the response as many times as it occurs in the store.
C1_FilterSoundAndComplete ==
    \A r \in Requests :
        Done(r) /\ HasClassParam(requests[r].query) =>
            LET F == FilterSet(requests[r].query)
            IN  /\ requests[r].response.status_code = 200
                /\ \A i \in 1..Len(Students(r)) : Students(r)[i].class \in F
                /\ \A j \in Matching(F) :
                        Count(Students(r), WireStore[j]) = Count(WireStore, WireStore[j])

\* C1 witness: a repeated filter value, a store with a matching and a
\* non-matching record, answered.
C1_Witness ==
    \E r \in Requests :
        /\ Done(r)
        /\ Len(requests[r].query) = 2
        /\ requests[r].query[1] = requests[r].query[2]
        /\ HasClassParam(requests[r].query)
        /\ Matching(FilterSet(requests[r].query)) # {}
        /\ Cardinality(Matching(FilterSet(requests[r].query))) < Len(ALL_STUDENTS_DATA)
        /\ Len(Students(r)) > 0

\* C2: without a class parameter the students sequence is the whole store,
\* record for record, in load order.
C2_NoFilterReturnsStore ==
    \A r \in Requests :
        Done(r) /\ ~HasClassParam(requests[r].query) =>
            /\ requests[r].response.status_code = 200
            /\ Students(r) = WireStore

\* C3: with several filter values the response is the matching records in
\* store order: the k-th matching row of the store is the k-th element of
\* the response, and there are no other elements.
C3_UnionInStoreOrder ==
    \A r \in Requests :
        Done(r) /\ HasClassParam(requests[r].query) =>
            LET M == Matching(FilterSet(requests[r].query))
            IN  /\ requests[r].response.status_code = 200
                /\ Len(Students(r)) = Cardinality(M)
                /\ \A j \in M :
                        Students(r)[Cardinality({k \in M : k <= j})] = WireStore[j]

\* C3 witness: two filter values given in the opposite of the store order of
\* the records they match, answered with both records.
C3_Witness ==
    \E r \in Requests :
        /\ Done(r)
        /\ Len(requests[r].query) = 2
        /\ Len(ALL_STUDENTS_DATA) = 2
        /\ requests[r].query[1] = [name |-> "class", value |-> ALL_STUDENTS_DATA[2].class_name]
        /\ requests[r].query[2] = [name |-> "class", value |-> ALL_STUDENTS_DATA[1].class_name]
        /\ ALL_STUDENTS_DATA[1].class_name # ALL_STUDENTS_DATA[2].class_name
        /\ Len(Students(r)) = 2

\* C4: a missing or unreadable data source leaves an empty store and a
\* process that serves.
C4_LoadNeverFails ==
    source.status \in {"missing", "unreadable"} /\ main_pc # "load" =>
        main_pc = "serving" /\ ALL_STUDENTS_DATA = <<>>

\* C5: with the data source absent the service starts, and every answered
\* request, filtered or not, carries an empty students sequence.
C5_AbsentSourceServesEmpty ==
    source.status = "missing" /\ main_pc # "load" =>
        /\ main_pc = "serving"
        /\ ALL_STUDENTS_DATA = <<>>
        /\ stdout = "CRITICAL"
        /\ \A r \in Requests :
                Done(r) => requests[r].response =
                                [status_code |-> 200, body |-> [students |-> <<>>]]

\* C5 witness: the source is absent and a filtered request has been answered.
C5_Witness ==
    /\ source.status = "missing"
    /\ \E r \in Requests : Done(r) /\ HasClassParam(requests[r].query)

\* C6: every answered request is a success, and a filter that matches no
\* record gives an empty students sequence.
C6_NoErrorResponse ==
    \A r \in Requests :
        Done(r) =>
            /\ requests[r].response.status_code = 200
            /\ (HasClassParam(requests[r].query)
                    /\ Matching(FilterSet(requests[r].query)) = {}
                        => Students(r) = <<>>)

\* C7: once the service serves, no step changes the store.
C7_StoreImmutable ==
    [][main_pc = "serving" => ALL_STUDENTS_DATA' = ALL_STUDENTS_DATA]_vars

\* C7 witness: a filter has dropped a record from a request's list and the
\* request is answered.
C7_Witness ==
    \E r \in Requests :
        /\ Done(r)
        /\ Truthy(requests[r].class_filter)
        /\ Len(requests[r].students_list) < Len(ALL_STUDENTS_DATA)

\* C8: the store is assigned once, before any request is received, and
\* under any interleaving of handlers each response is the one the request
\* gets when it runs alone against the loaded store.
C8_ConcurrentEqualsAlone ==
    /\ writes <= 1
    /\ main_pc = "serving" => writes = 1
    /\ writes = 0 => AllIdle
    /\ \A r \in Requests :
            Done(r) => requests[r].response =
                            get_students_data(ALL_STUDENTS_DATA, requests[r].query)

\* C8 witness: one request is answered while another, with another query,
\* is between its reads of the store.
C8_Witness ==
    \E r1, r2 \in Requests :
        /\ Done(r1)
        /\ requests[r2].pc \in {"filter", "convert"}
        /\ requests[r1].query # requests[r2].query
        /\ Len(Students(r1)) > 0

\* C9: every response is an object with the one key students, its elements
\* have exactly the keys studentId and class with the record's values, and
\* the filter is what the query gives under the name class.
C9_WireKeys ==
    \A r \in Requests :
        Done(r) =>
            /\ DOMAIN requests[r].response.body = {"students"}
            /\ \A i \in 1..Len(Students(r)) :
                    /\ DOMAIN Students(r)[i] = {"studentId", "class"}
                    /\ Students(r)[i].studentId \in Int
                    /\ Students(r)[i].class \in ClassCells
            /\ (~requests[r].class_filter.is_none) = HasClassParam(requests[r].query)
            /\ Range(requests[r].class_filter.values) = FilterSet(requests[r].query)

\* C10: the response depends only on the set of filter values: any other
\* query with the same non-empty set of values gets the same response, and a
\* filter that holds every class of the store gets the response of a request
\* without a filter.
C10_DependsOnValueSet ==
    \A r \in Requests :
        Done(r) /\ HasClassParam(requests[r].query) =>
            LET F == FilterSet(requests[r].query)
            IN  /\ \A q \in Queries :
                        HasClassParam(q) /\ FilterSet(q) = F =>
                            get_students_data(ALL_STUDENTS_DATA, q) = requests[r].response
                /\ ({ALL_STUDENTS_DATA[j].class_name : j \in 1..Len(ALL_STUDENTS_DATA)} \subseteq F
                        => requests[r].response = get_students_data(ALL_STUDENTS_DATA, <<>>))

\* C10 witness: two different filter values that cover a store of two
\* classes, answered.
C10_Witness ==
    \E r \in Requests :
        /\ Done(r)
        /\ Len(requests[r].query) = 2
        /\ Cardinality(FilterSet(requests[r].query)) = 2
        /\ Len(ALL_STUDENTS_DATA) = 2
        /\ {ALL_STUDENTS_DATA[j].class_name : j \in 1..2} = FilterSet(requests[r].query)

====
